---- MODULE Spec2Model ----
(***************************************************************************)
(* The icon renderer create_church_management_icon                         *)
(* (src/assets/icons/generate_church_icon.py) as a state machine.          *)
(*                                                                         *)
(* A render call allocates a transparent RGBA canvas and then runs its     *)
(* drawing passes in program order: gradient disc (one ring per loop       *)
(* iteration), cross shadow, white cross, four glyph painters, return.     *)
(*                                                                         *)
(* The canvas is kept as its width, its height and the list of primitives  *)
(* drawn on it so far.  ImageDraw on an 'RGBA' image writes the fill value *)
(* into every covered pixel (no blending), so the value of a pixel is the  *)
(* fill of the last primitive that covers it, or the transparent           *)
(* background: Pixel below.                                                *)
(*                                                                         *)
(* Python's float arithmetic is modelled by exact integer arithmetic:      *)
(* int(n * 0.45) is (n * 45) \div 100, and so on.  Where the IEEE-754      *)
(* double product lands just below an exact integer, so that int() gives   *)
(* one less than the exact quotient, the cases are listed (RoundsBelow35,  *)
(* InterpRoundsBelow); the lists cover sizes up to 2099 for the cross size *)
(* and disc radii up to 60 and 81, 115, 230, 460 for the colour ramp.  For *)
(* every other product, the ring alpha and the anchors int(cos * radius)   *)
(* the exact quotient and the double computation agree at all those sizes. *)
(*                                                                         *)
(* Non-integer sizes are outside the model.  The simpler variant           *)
(* create_church_icon (create_icon.py) is not modelled.                    *)
(***************************************************************************)
EXTENDS Integers, Sequences, FiniteSets, TLC

VARIABLES
    pc,      \* per render call: where it is in the function body
             \*   "idle" (not called), "gradient", "shadow", "cross",
             \*   "glyphs", "done" (returned img), "raised" (exception)
    size,    \* per render call: its argument
    canvas,  \* per render call: the image it allocated (img / draw)
    ring,    \* per render call: the loop variable i of the gradient loop
    todo     \* per render call: the glyph painters it has still to run

vars == <<pc, size, canvas, ring, todo>>

(***************************************************************************)
(* Bounds of the model                                                     *)
(***************************************************************************)
\* sizes 1..MaxSize are rendered by the single-render specification
MaxSize == 40
\* sizes 1..MaxGlyphSize are rendered with the glyph painters in any order
MaxGlyphSize == 12
\* sizes 1..MaxParSize are rendered by two interleaved render calls
MaxParSize == 8

W1 == "w1"
W2 == "w2"
Workers == {W1, W2}

\* sizes that are not valid inputs (non-positive)
InvalidSizes == {-1, 0}
\* the sizes main() renders
MainSizes == {1024, 512, 256, 128, 64, 32}
\* a size at which size * 0.35 in double arithmetic truncates below 35%
RoundingSizes == {180}

Sizes == InvalidSizes \cup (1..MaxSize) \cup MainSizes \cup RoundingSizes
GlyphSizes == (1..MaxGlyphSize) \cup {64}
ParSizes == InvalidSizes \cup (1..MaxParSize)

(***************************************************************************)
(* Colours                                                                 *)
(***************************************************************************)
primary_blue == <<74, 144, 226>>
secondary_blue == <<53, 122, 189>>
dark_blue == <<46, 90, 165>>
white == <<255, 255, 255, 255>>
shadow_color == <<0, 0, 0, 100>>
glyph_white == <<255, 255, 255, 200>>
line_color == <<74, 144, 226, 200>>
Transparent == <<0, 0, 0, 0>>

(***************************************************************************)
(* Arithmetic                                                              *)
(***************************************************************************)
\* int(n * (num/den)) for n >= 0
TruncMul(n, num, den) == (n * num) \div den

Abs(n) == IF n < 0 THEN -n ELSE n

\* int(cos(pi/4) * r) = floor(r / sqrt(2)) for r >= 0
Diag(r) == CHOOSE k \in 0..r : 2 * k * k <= r * r /\ 2 * (k + 1) * (k + 1) > r * r

\* sizes below 2100 where the double size * 0.35 is just below an integer
RoundsBelow35 ==
    {180, 340, 360, 660, 680, 700, 720, 1300, 1320, 1340, 1360, 1380, 1400,
     1420, 1440, 1460}

\* <<radius, i, channel>> where the interpolated channel, an exact integer,
\* is computed just below it in double arithmetic
InterpRoundsBelow ==
    {<<7, 3, 1>>, <<14, 6, 1>>, <<20, 14, 3>>, <<21, 9, 1>>, <<28, 12, 1>>,
     <<35, 15, 1>>, <<37, 25, 3>>, <<40, 28, 3>>, <<42, 18, 1>>, <<49, 21, 1>>,
     <<56, 24, 1>>, <<60, 42, 3>>, <<460, 322, 3>>}

(***************************************************************************)
(* Geometric parameters, all derived from size                             *)
(***************************************************************************)
Center(s) == s \div 2

Radius(s) == TruncMul(s, 45, 100)

CrossSize(s) == TruncMul(s, 35, 100) - (IF s \in RoundsBelow35 THEN 1 ELSE 0)

MutCrossThickness(s) == TruncMul(s, 15, 100)
CrossThickness(s) == TruncMul(CrossSize(s), 15, 100)

\* int(3 * scale), scale = size / 1024
ShadowOffset(s) == (3 * s) \div 1024

IconSize(s) == TruncMul(s, 6, 100)

MutElementRadius(s) == TruncMul(s, 3, 100)
ElementRadius(s) == TruncMul(s, 32, 100)

(***************************************************************************)
(* Primitives and the canvas                                               *)
(***************************************************************************)
Prim(kind, box, fill, layer) ==
    [kind |-> kind, box |-> box, fill |-> fill, layer |-> layer]

\* ImageDraw rejects a box whose second corner is before its first
WellFormed(box) == box[1] <= box[3] /\ box[2] <= box[4]

RectCovers(box, x, y) ==
    /\ box[1] <= x /\ x <= box[3]
    /\ box[2] <= y /\ y <= box[4]

\* the ellipse inscribed in the box, in doubled coordinates about its centre
EllipseCovers(box, x, y) ==
    LET a == box[3] - box[1]
        b == box[4] - box[2]
        dx == 2 * x - box[1] - box[3]
        dy == 2 * y - box[2] - box[4]
    IN  /\ RectCovers(box, x, y)
        /\ IF a = b THEN dx * dx + dy * dy <= a * a
                    ELSE b * b * dx * dx + a * a * dy * dy <= a * a * b * b

Covers(op, x, y) ==
    IF op.kind = "ellipse" THEN EllipseCovers(op.box, x, y)
                           ELSE RectCovers(op.box, x, y)

\* the index of the last primitive among ops[lo..hi] that covers (x, y), or
\* 0 when none does; the later half is searched first
RECURSIVE LastCover(_, _, _, _, _)
LastCover(ops, lo, hi, x, y) ==
    IF lo > hi THEN 0
    ELSE IF lo = hi THEN (IF Covers(ops[lo], x, y) THEN lo ELSE 0)
    ELSE LET mid == (lo + hi) \div 2
             late == LastCover(ops, mid + 1, hi, x, y)
         IN  IF late # 0 THEN late ELSE LastCover(ops, lo, mid, x, y)

\* the value of pixel (x, y) of the canvas: the fill of the last primitive
\* covering it, or the transparent background
Pixel(cv, x, y) ==
    LET k == LastCover(cv.ops, 1, Len(cv.ops), x, y)
    IN  IF k = 0 THEN Transparent ELSE cv.ops[k].fill

Coords(cv) == (0..(cv.width - 1)) \X (0..(cv.height - 1))

Raster(cv) == [p \in Coords(cv) |-> Pixel(cv, p[1], p[2])]

\* no image object: nothing allocated
NoCanvas == [allocated |-> FALSE, width |-> 0, height |-> 0, ops |-> <<>>]

\* Image.new('RGBA', (size, size), (0, 0, 0, 0))
ImageNew(s) == [allocated |-> TRUE, width |-> s, height |-> s, ops |-> <<>>]

(***************************************************************************)
(* Gradient disc                                                           *)
(***************************************************************************)
\* int(a[j] * t + b[j] * (1 - t)) with t = num / den
Interp(a, b, num, den, r, i) ==
    [j \in 1..3 |->
        ((a[j] * num + b[j] * (den - num)) \div den)
        - (IF <<r, i, j>> \in InterpRoundsBelow THEN 1 ELSE 0)]

MutGradientColor(i, r) ==
    IF 10 * i > 7 * r THEN dark_blue
    ELSE IF 10 * i > 4 * r
         THEN Interp(dark_blue, secondary_blue, 10 * i - 4 * r, 3 * r, r, i)
         ELSE Interp(secondary_blue, primary_blue, 10 * i, 4 * r, r, i)
\* ratio = i / radius; t = (ratio - 0.4) / 0.3 or ratio / 0.4
GradientColor(i, r) ==
    IF 10 * i > 7 * r THEN primary_blue
    ELSE IF 10 * i > 4 * r
         THEN Interp(primary_blue, secondary_blue, 10 * i - 4 * r, 3 * r, r, i)
         ELSE Interp(secondary_blue, dark_blue, 10 * i, 4 * r, r, i)

MutAlphaOverflow(i, r) == (255 * (8 * r + 3 * i)) \div (10 * r)
MutAlphaFading(i, r) == (255 * (5 * r - i)) \div (5 * r)
\* int(255 * (0.8 + 0.2 * (i / radius)))
GradientAlpha(i, r) == (255 * (4 * r + i)) \div (5 * r)

RingOp(s, i) ==
    LET c == Center(s)
        rgb == GradientColor(i, Radius(s))
    IN  Prim("ellipse", <<c - i, c - i, c + i, c + i>>,
             <<rgb[1], rgb[2], rgb[3], GradientAlpha(i, Radius(s))>>, "disc")

\* range(radius, 0, -2)
RingCount(s) == (Radius(s) + 1) \div 2

RingOps(s) == [k \in 1..RingCount(s) |-> RingOp(s, Radius(s) - 2 * (k - 1))]

(***************************************************************************)
(* Cross                                                                   *)
(***************************************************************************)
VerticalBar(s) ==
    LET c == Center(s) t == CrossThickness(s) z == CrossSize(s)
    IN  <<c - t \div 2, c - z \div 2, c + t \div 2, c + z \div 2>>

HorizontalBar(s) ==
    LET c == Center(s) t == CrossThickness(s) z == CrossSize(s)
    IN  <<c - z \div 2, c - t \div 2, c + z \div 2, c + t \div 2>>

Shifted(box, d) == <<box[1] + d, box[2] + d, box[3] + d, box[4] + d>>

ShadowOps(s) ==
    << Prim("rect", Shifted(VerticalBar(s), ShadowOffset(s)), shadow_color, "shadow"),
       Prim("rect", Shifted(HorizontalBar(s), ShadowOffset(s)), shadow_color, "shadow") >>

MutCrossOpsThenShadow(s) ==
    << Prim("rect", VerticalBar(s), white, "cross"),
       Prim("rect", HorizontalBar(s), white, "cross"),
       Prim("rect", Shifted(HorizontalBar(s), ShadowOffset(s)), shadow_color, "shadow") >>
CrossOps(s) ==
    << Prim("rect", VerticalBar(s), white, "cross"),
       Prim("rect", HorizontalBar(s), white, "cross") >>

(***************************************************************************)
(* Glyphs                                                                  *)
(***************************************************************************)
\* center + int(cos(theta) * element_radius), center + int(sin(theta) * ...)
DocAnchor(s) ==
    <<Center(s) + Diag(ElementRadius(s)), Center(s) - Diag(ElementRadius(s))>>

PeopleAnchor(s) ==
    <<Center(s) - Diag(ElementRadius(s)), Center(s) + Diag(ElementRadius(s))>>

CalendarAnchor(s) ==
    <<Center(s) - Diag(ElementRadius(s)), Center(s) - Diag(ElementRadius(s))>>

MutChartAnchor(s) ==
    <<Center(s) + Diag(ElementRadius(s)), Center(s) - Diag(ElementRadius(s))>>
ChartAnchor(s) ==
    <<Center(s) + Diag(ElementRadius(s)), Center(s) + Diag(ElementRadius(s))>>

DocLine(s, i) ==
    LET x == DocAnchor(s)[1]
        y == DocAnchor(s)[2]
        n == IconSize(s)
        line_height == TruncMul(n, 8, 100)
    IN  Prim("rect",
             <<x - n \div 3, y - n \div 4 + i * line_height * 2,
               x + n \div 3, y - n \div 4 + i * line_height * 2 + line_height>>,
             line_color, "document")

DocOps(s) ==
    LET x == DocAnchor(s)[1]
        y == DocAnchor(s)[2]
        n == IconSize(s)
    IN  << Prim("rect",
                <<x - n \div 2, y - n \div 2,
                  x + n \div 2, y + n \div 2 + TruncMul(n, 2, 10)>>,
                glyph_white, "document"),
           DocLine(s, 0), DocLine(s, 1), DocLine(s, 2) >>

PeopleCircle(s, i) ==
    LET n == IconSize(s)
        circle_radius == TruncMul(n, 12, 100)
        px == PeopleAnchor(s)[1] - n \div 3 + (i * n) \div 3
        py == PeopleAnchor(s)[2]
    IN  Prim("ellipse",
             <<px - circle_radius, py - circle_radius,
               px + circle_radius, py + circle_radius>>,
             glyph_white, "people")

PeopleOps(s) == << PeopleCircle(s, 0), PeopleCircle(s, 1), PeopleCircle(s, 2) >>

CalendarCell(s, i, j) ==
    LET x == CalendarAnchor(s)[1]
        y == CalendarAnchor(s)[2]
        n == IconSize(s)
        grid_size == n \div 6
    IN  Prim("rect",
             <<x - n \div 4 + (i * n) \div 3, y - n \div 4 + (j * n) \div 3,
               x - n \div 4 + (i * n) \div 3 + grid_size,
               y - n \div 4 + (j * n) \div 3 + grid_size>>,
             line_color, "calendar")

CalendarOps(s) ==
    LET x == CalendarAnchor(s)[1]
        y == CalendarAnchor(s)[2]
        n == IconSize(s)
    IN  << Prim("rect",
                <<x - n \div 2, y - n \div 2, x + n \div 2, y + n \div 2>>,
                glyph_white, "calendar"),
           CalendarCell(s, 0, 0), CalendarCell(s, 0, 1),
           CalendarCell(s, 1, 0), CalendarCell(s, 1, 1) >>

MutChartBar(s, i, height) ==
    LET x == ChartAnchor(s)[1]
        y == ChartAnchor(s)[2]
        n == IconSize(s)
        bar_width == n \div 4
    IN  Prim("rect",
             <<x - n \div 2 + (i * n) \div 3, y + height \div 2,
               x - n \div 2 + (i * n) \div 3 + bar_width, y - height \div 2>>,
             glyph_white, "chart")
ChartBar(s, i, height) ==
    LET x == ChartAnchor(s)[1]
        y == ChartAnchor(s)[2]
        n == IconSize(s)
        bar_width == n \div 4
    IN  Prim("rect",
             <<x - n \div 2 + (i * n) \div 3, y - height \div 2,
               x - n \div 2 + (i * n) \div 3 + bar_width, y + height \div 2>>,
             glyph_white, "chart")

ChartOps(s) ==
    LET n == IconSize(s)
    IN  << ChartBar(s, 0, TruncMul(n, 3, 10)),
           ChartBar(s, 1, TruncMul(n, 5, 10)),
           ChartBar(s, 2, TruncMul(n, 2, 10)) >>

Glyphs == {"document", "people", "calendar", "chart"}

GlyphOps(g, s) ==
    CASE g = "document" -> DocOps(s)
      [] g = "people" -> PeopleOps(s)
      [] g = "calendar" -> CalendarOps(s)
      [] g = "chart" -> ChartOps(s)

\* the order in which the function body runs the four painters
SourceOrder == <<"document", "people", "calendar", "chart">>

\* every sequence of distinct glyph painters: any subset, in any order
Plans ==
    {p \in UNION {[1..n -> Glyphs] : n \in 0..4} :
        \A a, b \in DOMAIN p : a # b => p[a] # p[b]}

RECURSIVE PlanOps(_, _)
PlanOps(plan, s) ==
    IF plan = <<>> THEN <<>>
    ELSE GlyphOps(Head(plan), s) \o PlanOps(Tail(plan), s)

\* the canvas a render of size s returns when it runs alone, start to end
RenderAlone(s) ==
    [ImageNew(s) EXCEPT
        !.ops = RingOps(s) \o ShadowOps(s) \o CrossOps(s) \o PlanOps(SourceOrder, s)]

(***************************************************************************)
(* The render call of worker w                                             *)
(***************************************************************************)
\* the canvas a render call draws on: the one it allocated (draw = Draw(img))
MutDrawTargetShared(w) == W1
DrawTarget(w) == w

\* draw the primitives on the canvas, unless ImageDraw rejects one of them
Paint(w, ops, next) ==
    IF \A k \in DOMAIN ops : WellFormed(ops[k].box)
    THEN /\ canvas' = [canvas EXCEPT ![DrawTarget(w)].ops = @ \o ops]
         /\ pc' = [pc EXCEPT ![w] = next]
    ELSE /\ canvas' = canvas
         /\ pc' = [pc EXCEPT ![w] = "raised"]

\* create_church_management_icon(s): Image.new raises on a negative size
Call(w, s, plan) ==
    /\ pc[w] = "idle"
    /\ size' = [size EXCEPT ![w] = s]
    /\ IF s < 0
       THEN /\ pc' = [pc EXCEPT ![w] = "raised"]
            /\ UNCHANGED <<canvas, ring, todo>>
       ELSE /\ pc' = [pc EXCEPT ![w] = "gradient"]
            /\ canvas' = [canvas EXCEPT ![w] = ImageNew(s)]
            /\ ring' = [ring EXCEPT ![w] = Radius(s)]
            /\ todo' = [todo EXCEPT ![w] = plan]

\* one iteration of: for i in range(radius, 0, -2)
GradientStep(w) ==
    /\ pc[w] = "gradient"
    /\ ring[w] > 0
    /\ Paint(w, <<RingOp(size[w], ring[w])>>, "gradient")
    /\ ring' = [ring EXCEPT ![w] = @ - 2]
    /\ UNCHANGED <<size, todo>>

GradientExit(w) ==
    /\ pc[w] = "gradient"
    /\ ring[w] <= 0
    /\ pc' = [pc EXCEPT ![w] = "shadow"]
    /\ UNCHANGED <<size, canvas, ring, todo>>

DrawShadow(w) ==
    /\ pc[w] = "shadow"
    /\ Paint(w, ShadowOps(size[w]), "cross")
    /\ UNCHANGED <<size, ring, todo>>

DrawCross(w) ==
    /\ pc[w] = "cross"
    /\ Paint(w, CrossOps(size[w]), "glyphs")
    /\ UNCHANGED <<size, ring, todo>>

\* the painter the call runs next
NextGlyph(w) == IF todo[w] = <<>> THEN "none" ELSE Head(todo[w])

PaintDocument(w) ==
    /\ pc[w] = "glyphs"
    /\ NextGlyph(w) = "document"
    /\ Paint(w, DocOps(size[w]), "glyphs")
    /\ todo' = [todo EXCEPT ![w] = Tail(@)]
    /\ UNCHANGED <<size, ring>>

PaintPeople(w) ==
    /\ pc[w] = "glyphs"
    /\ NextGlyph(w) = "people"
    /\ Paint(w, PeopleOps(size[w]), "glyphs")
    /\ todo' = [todo EXCEPT ![w] = Tail(@)]
    /\ UNCHANGED <<size, ring>>

PaintCalendar(w) ==
    /\ pc[w] = "glyphs"
    /\ NextGlyph(w) = "calendar"
    /\ Paint(w, CalendarOps(size[w]), "glyphs")
    /\ todo' = [todo EXCEPT ![w] = Tail(@)]
    /\ UNCHANGED <<size, ring>>

PaintChart(w) ==
    /\ pc[w] = "glyphs"
    /\ NextGlyph(w) = "chart"
    /\ Paint(w, ChartOps(size[w]), "glyphs")
    /\ todo' = [todo EXCEPT ![w] = Tail(@)]
    /\ UNCHANGED <<size, ring>>

\* return img
Return(w) ==
    /\ pc[w] = "glyphs"
    /\ todo[w] = <<>>
    /\ pc' = [pc EXCEPT ![w] = "done"]
    /\ UNCHANGED <<size, canvas, ring, todo>>

\* the caller has saved the raster, or seen the exception: the call is over
Release(w) ==
    /\ pc[w] \in {"done", "raised"}
    /\ pc' = [pc EXCEPT ![w] = "idle"]
    /\ size' = [size EXCEPT ![w] = 0]
    /\ canvas' = [canvas EXCEPT ![w] = NoCanvas]
    /\ ring' = [ring EXCEPT ![w] = 0]
    /\ todo' = [todo EXCEPT ![w] = <<>>]

Init ==
    /\ pc = [w \in Workers |-> "idle"]
    /\ size = [w \in Workers |-> 0]
    /\ canvas = [w \in Workers |-> NoCanvas]
    /\ ring = [w \in Workers |-> 0]
    /\ todo = [w \in Workers |-> <<>>]

\* main(): one render at a time, glyph painters in the order of the source
Next ==
    \/ \E s \in Sizes : Call(W1, s, SourceOrder)
    \/ GradientStep(W1)
    \/ GradientExit(W1)
    \/ DrawShadow(W1)
    \/ DrawCross(W1)
    \/ PaintDocument(W1)
    \/ PaintPeople(W1)
    \/ PaintCalendar(W1)
    \/ PaintChart(W1)
    \/ Return(W1)
    \/ Release(W1)

Spec == Init /\ [][Next]_vars

\* the render is synchronous straight-line code: a step that can run, runs
SpecFair == Spec /\ WF_vars(Next)

\* one render at a time, any subset of the glyph painters in any order
NextGlyphs ==
    \/ \E s \in GlyphSizes : \E plan \in Plans : Call(W1, s, plan)
    \/ GradientStep(W1)
    \/ GradientExit(W1)
    \/ DrawShadow(W1)
    \/ DrawCross(W1)
    \/ PaintDocument(W1)
    \/ PaintPeople(W1)
    \/ PaintCalendar(W1)
    \/ PaintChart(W1)
    \/ Return(W1)
    \/ Release(W1)

SpecGlyphs == Init /\ [][NextGlyphs]_vars

\* two render calls whose passes interleave in any order
NextPar ==
    \E w \in Workers :
        \/ \E s \in ParSizes : Call(w, s, SourceOrder)
        \/ GradientStep(w)
        \/ GradientExit(w)
        \/ DrawShadow(w)
        \/ DrawCross(w)
        \/ PaintDocument(w)
        \/ PaintPeople(w)
        \/ PaintCalendar(w)
        \/ PaintChart(w)
        \/ Return(w)
        \/ Release(w)

SpecPar == Init /\ [][NextPar]_vars

(***************************************************************************)
(* Reading the canvas                                                      *)
(***************************************************************************)
Min(a, b) == IF a < b THEN a ELSE b

Max(a, b) == IF a > b THEN a ELSE b

Dom(cv) == DOMAIN cv.ops

LayerOps(cv, layer) == {k \in Dom(cv) : cv.ops[k].layer = layer}

\* the glyph painters that have drawn on the canvas
Painted(cv) == {cv.ops[k].layer : k \in Dom(cv)} \cap Glyphs

\* the call has finished the cross pass and no glyph painter has run yet
JustAfterCross(w) == pc[w] = "glyphs" /\ Painted(canvas[w]) = {}

BoxMeet(a, b) ==
    <<Max(a[1], b[1]), Max(a[2], b[2]), Min(a[3], b[3]), Min(a[4], b[4])>>

BoxesIntersect(a, b) == WellFormed(BoxMeet(a, b))

\* the canvas pixels inside a box
BoxPixels(cv, box) ==
    (Max(box[1], 0)..Min(box[3], cv.width - 1))
        \X (Max(box[2], 0)..Min(box[4], cv.height - 1))

\* the canvas pixels that lie in a shadow rectangle and in a white rectangle
OverlapPixels(cv) ==
    UNION {BoxPixels(cv, BoxMeet(cv.ops[a].box, cv.ops[b].box)) :
              <<a, b>> \in LayerOps(cv, "shadow") \X LayerOps(cv, "cross")}

\* the bounding box of everything one glyph painter drew
GlyphBox(cv, g) ==
    LET ks == LayerOps(cv, g)
        lo(n) == CHOOSE v \in {cv.ops[k].box[n] : k \in ks} :
                     \A k \in ks : v <= cv.ops[k].box[n]
        hi(n) == CHOOSE v \in {cv.ops[k].box[n] : k \in ks} :
                     \A k \in ks : v >= cv.ops[k].box[n]
    IN  <<lo(1), lo(2), hi(3), hi(4)>>

\* v is within one pixel of (num/den) * of
WithinOnePx(v, num, den, of) == Abs(den * v - num * of) <= den

(***************************************************************************)
(* C1  Cross layering                                                      *)
(***************************************************************************)
\* C1: at every valid size, once the cross pass has finished every pixel
\* that lies in both a shadow rectangle and a white-cross rectangle holds
\* opaque white, and in the returned raster no such pixel holds the shadow
\* colour.
C1_NoShadowOnCross ==
    \A w \in Workers :
        size[w] >= 1 =>
            /\ JustAfterCross(w) =>
                   \A p \in OverlapPixels(canvas[w]) :
                       Pixel(canvas[w], p[1], p[2]) = white
            /\ pc[w] = "done" =>
                   \A p \in OverlapPixels(canvas[w]) :
                       Pixel(canvas[w], p[1], p[2]) # shadow_color

\* the 1024 render after its cross pass: the shadow is offset by 3, the
\* centre pixel is under both, and the shadow shows beside the white bar
C1_Witness ==
    LET s == size[W1]
        x == Center(s) + CrossThickness(s) \div 2 + ShadowOffset(s)
        y == Center(s) - CrossSize(s) \div 2 + ShadowOffset(s)
    IN  /\ s = 1024
        /\ JustAfterCross(W1)
        /\ ShadowOffset(s) = 3
        /\ <<Center(s), Center(s)>> \in OverlapPixels(canvas[W1])
        /\ Pixel(canvas[W1], Center(s), Center(s)) = white
        /\ Pixel(canvas[W1], x, y) = shadow_color

(***************************************************************************)
(* C2  Glyph bounding boxes                                                *)
(***************************************************************************)
NoGlyphBoxesMeet(cv) ==
    \A g, h \in Glyphs :
        g # h => ~BoxesIntersect(GlyphBox(cv, g), GlyphBox(cv, h))

\* C2 as stated: for every size >= 1 and the default angles, no two of the
\* four glyph bounding boxes of the finished render intersect.
C2_Original ==
    \A w \in Workers :
        (pc[w] = "done" /\ size[w] >= 1 /\ Painted(canvas[w]) = Glyphs)
            => NoGlyphBoxesMeet(canvas[w])

\* C2 amended: for every size >= 7 and the default angles, no two of the
\* four glyph bounding boxes of the finished render intersect.  (Below 7 the
\* placement radius int(0.32 * size) is at most 1, all four anchors are the
\* centre pixel and the four boxes coincide.)
C2_GlyphBoxesDisjointFrom7 ==
    \A w \in Workers :
        (pc[w] = "done" /\ size[w] >= 7 /\ Painted(canvas[w]) = Glyphs)
            => NoGlyphBoxesMeet(canvas[w])

\* the finished 1024 render, whose four glyphs have real extent (each box
\* is at least 41 x 15 pixels)
C2_Witness ==
    /\ pc[W1] = "done"
    /\ size[W1] = 1024
    /\ Painted(canvas[W1]) = Glyphs
    /\ \A g \in Glyphs :
           LET b == GlyphBox(canvas[W1], g)
           IN  b[3] - b[1] >= 40 /\ b[4] - b[2] >= 14

(***************************************************************************)
(* C4  Probe near the badge edge                                           *)
(***************************************************************************)
Rgb(px) == <<px[1], px[2], px[3]>>

\* the rows nearest to center - 0.40 * size (102.4 at size 1024)
ProbeRows(s) ==
    {Center(s) - TruncMul(s, 40, 100), Center(s) - TruncMul(s, 40, 100) - 1}

\* between secondary_blue and dark_blue in every channel
InDarkBand(rgb) ==
    \A j \in 1..3 : dark_blue[j] <= rgb[j] /\ rgb[j] <= secondary_blue[j]

\* C4 as stated: in the 1024 render the pixel at (center, center - 0.40 *
\* size) ends in the secondary-to-dark band of the ramp, not primary blue.
C4_Original ==
    \A w \in Workers :
        (pc[w] = "done" /\ size[w] = 1024) =>
            \A y \in ProbeRows(size[w]) :
                /\ InDarkBand(Rgb(Pixel(canvas[w], Center(size[w]), y)))
                /\ Rgb(Pixel(canvas[w], Center(size[w]), y)) # primary_blue

\* C4 amended: in the 1024 render the pixel at (center, center - 0.40 *
\* size) ends with primary blue (74,144,226), alpha 249: it lies in the
\* ratio > 0.7 band, which the ramp paints primary; the dark end of the ramp
\* is at the centre of the badge.
C4_ProbeIsPrimaryBlue ==
    \A w \in Workers :
        (pc[w] = "done" /\ size[w] = 1024) =>
            \A y \in ProbeRows(size[w]) :
                Pixel(canvas[w], Center(size[w]), y) = <<74, 144, 226, 249>>

\* the finished 1024 render: the probe is inside the badge and outside the
\* cross and every glyph, while a ring near the centre is dark
C4_Witness ==
    /\ pc[W1] = "done"
    /\ size[W1] = 1024
    /\ ProbeRows(1024) = {102, 103}
    /\ \A y \in ProbeRows(1024) :
           /\ \E k \in LayerOps(canvas[W1], "disc") :
                  Covers(canvas[W1].ops[k], 512, y)
           /\ \A k \in Dom(canvas[W1]) :
                  canvas[W1].ops[k].layer # "disc"
                      => ~Covers(canvas[W1].ops[k], 512, y)
    /\ \E k \in LayerOps(canvas[W1], "disc") :
           InDarkBand(Rgb(canvas[W1].ops[k].fill))

(***************************************************************************)
(* C5  Input validation                                                    *)
(***************************************************************************)
\* C5: a render called with an invalid size (zero or negative) fails
\* before any drawing pass runs: no canvas is allocated or drawn on and no
\* raster is returned.
C5_InvalidSizeFailsFast ==
    \A w \in Workers :
        (pc[w] # "idle" /\ size[w] < 1) =>
            pc[w] = "raised" /\ canvas[w] = NoCanvas

(***************************************************************************)
(* C6  Totality over valid sizes                                           *)
(***************************************************************************)
\* no drawing step of a valid-size render has failed, every box drawn so
\* far is well formed, and the ring counter stays within the loop's range
NoDrawingFailure ==
    \A w \in Workers :
        size[w] >= 1 =>
            /\ pc[w] # "raised"
            /\ \A k \in Dom(canvas[w]) : WellFormed(canvas[w].ops[k].box)
            /\ ring[w] <= Radius(size[w])
            /\ pc[w] = "gradient" => ring[w] >= -1

\* C6: for every size >= 1, including the degenerate sizes below 8, no
\* drawing step fails, every box handed to a primitive has x0 <= x1 and
\* y0 <= y1, the gradient loop terminates and the render returns a canvas.
C6_RenderCompletes ==
    /\ []NoDrawingFailure
    /\ \A w \in {W1} :
           (pc[w] = "gradient" /\ size[w] >= 1) ~> (pc[w] = "done")

\* a degenerate render (glyph dimensions 0, no ring at all) that returned
\* with all nineteen primitives of cross and glyphs drawn
C6_Witness ==
    /\ pc[W1] = "done"
    /\ size[W1] = 2
    /\ IconSize(size[W1]) = 0
    /\ RingCount(size[W1]) = 0
    /\ Len(canvas[W1].ops) = 19
    /\ \A k \in Dom(canvas[W1]) : WellFormed(canvas[W1].ops[k].box)

(***************************************************************************)
(* C7  Raster shape                                                        *)
(***************************************************************************)
IsByte(v) == v \in 0..255

\* C7: for every valid size the canvas has exactly size x size pixels, every
\* alpha value a pass writes is in [0,255], and every pixel of the returned
\* raster has an alpha in [0,255] (the whole raster is read for the sizes up
\* to MaxSize, the written values for every size).
C7_RasterWellFormed ==
    \A w \in Workers :
        (pc[w] \notin {"idle", "raised"} /\ size[w] >= 1) =>
            /\ canvas[w].allocated
            /\ canvas[w].width = size[w]
            /\ canvas[w].height = size[w]
            /\ \A k \in Dom(canvas[w]) : IsByte(canvas[w].ops[k].fill[4])
            /\ (pc[w] = "done" /\ size[w] <= MaxSize) =>
                   /\ Cardinality(Coords(canvas[w])) = size[w] * size[w]
                   /\ \A p \in Coords(canvas[w]) :
                          IsByte(Pixel(canvas[w], p[1], p[2])[4])

\* a returned raster with a transparent corner, an opaque cross and the
\* outermost ring written at alpha 255
C7_Witness ==
    /\ pc[W1] = "done"
    /\ size[W1] = 40
    /\ Cardinality(Coords(canvas[W1])) = 1600
    /\ Pixel(canvas[W1], 0, 0)[4] = 0
    /\ Pixel(canvas[W1], 20, 20)[4] = 255
    /\ canvas[W1].ops[1].fill[4] = 255
    /\ \E k \in Dom(canvas[W1]) : canvas[W1].ops[k].fill[4] = 100

(***************************************************************************)
(* C9  Scale consistency                                                   *)
(***************************************************************************)
\* the number of opaque white pixels in the centre column and centre row
VerticalArm(cv, s) ==
    Cardinality({y \in 0..(cv.height - 1) : Pixel(cv, Center(s), y) = white})

HorizontalArm(cv, s) ==
    Cardinality({x \in 0..(cv.width - 1) : Pixel(cv, x, Center(s)) = white})

\* C9: for every valid size each geometric parameter is within 1 px of its
\* fixed ratio of size: center vs size/2, badge radius vs 0.45*size, cross
\* size vs 0.35*size, cross thickness vs 0.15*cross size, glyph icon size vs
\* 0.06*size, placement radius vs 0.32*size, and the drawn cross arm length
\* (white pixels along the centre column and row after the cross pass) vs
\* 0.35*size.
C9_ScaleConsistency ==
    \A w \in Workers :
        (pc[w] \notin {"idle", "raised"} /\ size[w] >= 1) =>
            LET s == size[w]
            IN  /\ WithinOnePx(Center(s), 1, 2, s)
                /\ WithinOnePx(Radius(s), 45, 100, s)
                /\ WithinOnePx(CrossSize(s), 35, 100, s)
                /\ WithinOnePx(CrossThickness(s), 15, 100, CrossSize(s))
                /\ WithinOnePx(IconSize(s), 6, 100, s)
                /\ WithinOnePx(ElementRadius(s), 32, 100, s)
                /\ JustAfterCross(w) =>
                       /\ WithinOnePx(VerticalArm(canvas[w], s), 35, 100, s)
                       /\ WithinOnePx(HorizontalArm(canvas[w], s), 35, 100, s)
                       /\ canvas[w].ops[Len(canvas[w].ops)].box =
                              <<Center(s) - CrossSize(s) \div 2,
                                Center(s) - CrossThickness(s) \div 2,
                                Center(s) + CrossSize(s) \div 2,
                                Center(s) + CrossThickness(s) \div 2>>

\* size 180, where the double product 180 * 0.35 truncates to 62: the cross
\* has been drawn and its arms are 63 pixels long, exactly 0.35 * 180
C9_Witness ==
    /\ size[W1] = 180
    /\ JustAfterCross(W1)
    /\ CrossSize(180) = 62
    /\ CrossThickness(180) = 9
    /\ VerticalArm(canvas[W1], 180) = 63
    /\ HorizontalArm(canvas[W1], 180) = 63

(***************************************************************************)
(* C10  Alpha of the gradient rings                                        *)
(***************************************************************************)
\* the radius of a ring drawn by the gradient pass
RingRadius(op) == (op.box[3] - op.box[1]) \div 2

Alpha(op) == op.fill[4]

\* the ring drawn last has the alpha of the formula, which is at least 204
RingAlphaAsFormula(w) ==
    LET cv == canvas[w]
        last == cv.ops[Len(cv.ops)]
        r == RingRadius(last)
        max == Radius(size[w])
    IN  /\ 5 * max * Alpha(last) <= 255 * (4 * max + r)
        /\ 5 * max * (Alpha(last) + 1) > 255 * (4 * max + r)
        /\ Alpha(last) >= 204
        /\ Alpha(last) <= 255

GradientRunning(w) ==
    pc[w] = "gradient" /\ size[w] >= 1 /\ Len(canvas[w].ops) > 0

\* C10 as stated: the alpha of ring r is floor(255 * (0.8 + 0.2 * r /
\* maxRadius)), at least 204, and for steps r1 < r2 alpha(r2) <= alpha(r1).
C10_Original ==
    \A w \in Workers :
        GradientRunning(w) =>
            /\ RingAlphaAsFormula(w)
            /\ \A k \in Dom(canvas[w]) :
                   LET a == canvas[w].ops[Len(canvas[w].ops)]
                       b == canvas[w].ops[k]
                   IN  RingRadius(a) < RingRadius(b) => Alpha(b) <= Alpha(a)

\* C10 amended: the alpha of ring r is floor(255 * (0.8 + 0.2 * r /
\* maxRadius)), at least 204, and for steps r1 < r2 alpha(r1) <= alpha(r2):
\* the badge is opaque (255) at its edge and slightly more transparent
\* toward the centre.
C10_AlphaGrowsWithRadius ==
    \A w \in Workers :
        GradientRunning(w) =>
            /\ RingAlphaAsFormula(w)
            /\ \A k \in Dom(canvas[w]) :
                   LET a == canvas[w].ops[Len(canvas[w].ops)]
                       b == canvas[w].ops[k]
                   IN  RingRadius(a) < RingRadius(b) => Alpha(a) <= Alpha(b)

\* the 1024 gradient after its last ring: the outermost ring has alpha 255,
\* the innermost (radius 2) alpha 204
C10_Witness ==
    /\ pc[W1] = "gradient"
    /\ size[W1] = 1024
    /\ Len(canvas[W1].ops) = 230
    /\ RingRadius(canvas[W1].ops[1]) = 460
    /\ Alpha(canvas[W1].ops[1]) = 255
    /\ RingRadius(canvas[W1].ops[230]) = 2
    /\ Alpha(canvas[W1].ops[230]) = 204

(***************************************************************************)
(* C8  Renders do not share state                                          *)
(***************************************************************************)
SameRaster(a, b) ==
    /\ a.width = b.width
    /\ a.height = b.height
    /\ Raster(a) = Raster(b)

\* C8: when two render calls run with their passes interleaved in any
\* order, each returns the raster it returns when run alone, and two renders
\* of the same size return pixel-identical rasters.
C8_RendersIndependent ==
    /\ \A w \in Workers :
           pc[w] = "done" => SameRaster(canvas[w], RenderAlone(size[w]))
    /\ \A v, w \in Workers :
           (pc[v] = "done" /\ pc[w] = "done" /\ size[v] = size[w])
               => SameRaster(canvas[v], canvas[w])

\* two interleaved renders of the same size have both returned, with the
\* badge, the cross and the glyphs on their rasters
C8_Witness ==
    /\ pc[W1] = "done"
    /\ pc[W2] = "done"
    /\ size[W1] = MaxParSize
    /\ size[W2] = MaxParSize
    /\ Len(canvas[W1].ops) = RingCount(MaxParSize) + 19
    /\ Len(canvas[W2].ops) = RingCount(MaxParSize) + 19
    /\ Pixel(canvas[W2], Center(MaxParSize), Center(MaxParSize)) = white

(***************************************************************************)
(* C3  Glyph painters commute                                              *)
(***************************************************************************)
\* a glyph painter of this render wrote pixel (x, y)
GlyphWrote(cv, x, y) ==
    \E k \in Dom(cv) : cv.ops[k].layer \in Glyphs /\ Covers(cv.ops[k], x, y)

\* the finished raster agrees with the render in source order: everywhere
\* when all four painters ran, and on every pixel a painter wrote otherwise
AgreesWithSourceOrder(cv, s) ==
    LET ref == RenderAlone(s)
    IN  \A p \in Coords(cv) :
            (Painted(cv) = Glyphs \/ GlyphWrote(cv, p[1], p[2]))
                => Pixel(cv, p[1], p[2]) = Pixel(ref, p[1], p[2])

\* C3 as stated: for every valid size, running the four glyph painters in
\* any order gives the same final raster, and omitting any subset leaves
\* every pixel written by the remaining painters with the same value.
C3_Original ==
    \A w \in Workers :
        (pc[w] = "done" /\ size[w] >= 1)
            => AgreesWithSourceOrder(canvas[w], size[w])

\* C3 amended: the same for every size >= 7.  (Below 7 the four glyphs are
\* drawn on the same centre pixel, and the painter that runs last decides
\* its value.)
C3_GlyphPaintersCommuteFrom7 ==
    \A w \in Workers :
        (pc[w] = "done" /\ size[w] >= 7)
            => AgreesWithSourceOrder(canvas[w], size[w])

\* a finished size-64 render that ran all four painters starting with the
\* chart, the painter the source runs last
C3_Witness ==
    /\ pc[W1] = "done"
    /\ size[W1] = 64
    /\ Painted(canvas[W1]) = Glyphs
    /\ canvas[W1].ops[RingCount(64) + 5].layer = "chart"
    /\ canvas[W1].ops[Len(canvas[W1].ops)].layer = "document"

====
